---- MODULE Spec2Model ----
(***************************************************************************)
(* Request binding and validation of the tasker backend                    *)
(* (package validation: CustomBinder.Bind, BindParams, BindBody,           *)
(* validateJSONStructure, bindValue, BindAndValidate).                     *)
(*                                                                         *)
(* One behaviour is one request handled by BindAndValidate: the request's  *)
(* raw inputs and the target type are fixed in Init, the steps of Bind and *)
(* of BindAndValidate are the actions.  Replay binds the same raw inputs a *)
(* second time into a fresh target, so that two outcomes can be compared.  *)
(* Rebind calls BindAndValidate a second time on the same echo.Context.    *)
(* Switch interleaves the steps of the binds of two requests.              *)
(*                                                                         *)
(* The process that serves the requests (package server: Server.Start,     *)
(* Server.Shutdown; JobService.Stop; main) is the variable srv; its steps  *)
(* from the interrupt signal to the exit are the actions of SpecShutdown.  *)
(***************************************************************************)
EXTENDS Integers, Sequences, FiniteSets, TLC

VARIABLES
    typ,        \* the target type (index in TargetTypes) of payload
    req,        \* raw inputs: path, query, form, header values and the body
    target,     \* the payload struct: field index -> value
    pc,         \* position inside BindAndValidate / Bind
    paramErrs,  \* Bind: errors returned by BindParams
    bodyErrs,   \* Bind: errors returned by BindBody
    ctxErrs,    \* echo.Context store under bindingErrorsKey (Unset when absent)
    bindErr,    \* error returned by c.Bind: "nil" or "400"
    valErrs,    \* validator.ValidationErrors of payload.Validate(): field names
    validated,  \* payload.Validate() has been called
    allErrors,  \* BindAndValidate: merged list
    result,     \* value returned by BindAndValidate
    afterParams,\* the target as BindParams left it
    run,        \* 1 for the first bind of the inputs, 2 for the second
    prev,       \* outcome of the first bind, kept for the second; under
                \* SpecConcurrent, the state of the bind that is not running
    srv         \* the Server of the process: its resources and the position
                \* of main inside Server.Shutdown

vars == <<typ, req, target, pc, paramErrs, bodyErrs, ctxErrs, bindErr, valErrs,
          validated, allErrors, result, afterParams, run, prev, srv>>

(***************************************************************************)
(* Bounds of the model.                                                    *)
(***************************************************************************)
MaxBodyKeys == 2    \* members of a JSON object body
MaxRuleErrs == 1    \* rule violations reported by one Validate call
MaxInFlight == 2    \* requests being served when the interrupt arrives

(***************************************************************************)
(* Strings: strings.ToLower, strings.Split(tag, ",")[0],                   *)
(* strings.ReplaceAll(s, "-", "").                                         *)
(***************************************************************************)
UpperLetters == "ABCDEFGHIJKLMNOPQRSTUVWXYZ"
LowerLetters == "abcdefghijklmnopqrstuvwxyz"

CharAt(s, i) == SubSeq(s, i, i)

IndexIn(c, alphabet) ==
    IF \E i \in 1..Len(alphabet) : CharAt(alphabet, i) = c
    THEN CHOOSE i \in 1..Len(alphabet) : CharAt(alphabet, i) = c
    ELSE 0

LowerChar(c) ==
    IF IndexIn(c, UpperLetters) > 0
    THEN CharAt(LowerLetters, IndexIn(c, UpperLetters))
    ELSE c

UpperChar(c) ==
    IF IndexIn(c, LowerLetters) > 0
    THEN CharAt(UpperLetters, IndexIn(c, LowerLetters))
    ELSE c

RECURSIVE ToLower(_)
ToLower(s) ==
    IF Len(s) = 0 THEN ""
    ELSE LowerChar(CharAt(s, 1)) \o ToLower(SubSeq(s, 2, Len(s)))

\* strings.Split(tag, ",")[0]: the text before the first comma
RECURSIVE TagName(_)
TagName(tag) ==
    IF Len(tag) = 0 \/ CharAt(tag, 1) = "," THEN ""
    ELSE CharAt(tag, 1) \o TagName(SubSeq(tag, 2, Len(tag)))

\* strings.ReplaceAll(s, "-", "")
RECURSIVE StripHyphens(_)
StripHyphens(s) ==
    IF Len(s) = 0 THEN ""
    ELSE (IF CharAt(s, 1) = "-" THEN "" ELSE CharAt(s, 1))
             \o StripHyphens(SubSeq(s, 2, Len(s)))

\* textproto.CanonicalMIMEHeaderKey, as http.Header.Get applies it to the key
RECURSIVE CanonicalFrom(_, _)
CanonicalFrom(s, upperNext) ==
    IF Len(s) = 0 THEN ""
    ELSE (IF upperNext THEN UpperChar(CharAt(s, 1)) ELSE LowerChar(CharAt(s, 1)))
             \o CanonicalFrom(SubSeq(s, 2, Len(s)), CharAt(s, 1) = "-")

CanonicalHeaderKey(s) == CanonicalFrom(s, TRUE)

(***************************************************************************)
(* Go types of the target's fields, written as Go writes them, and their   *)
(* reflect.Kind.                                                           *)
(***************************************************************************)
IntTypes   == {"int", "int8", "int16", "int32", "int64"}
UintTypes  == {"uint", "uint8", "uint16", "uint32", "uint64"}
FloatTypes == {"float32", "float64"}

IsPtrType(t) == Len(t) > 0 /\ CharAt(t, 1) = "*"
ElemType(t)  == SubSeq(t, 2, Len(t))

Kind(t) ==
    CASE t = "string"        -> "String"
      [] t \in IntTypes      -> "Int"
      [] t \in UintTypes     -> "Uint"
      [] t \in FloatTypes    -> "Float"
      [] t = "bool"          -> "Bool"
      [] t = "[16]byte"      -> "Array"
      [] t = "[]string"      -> "Slice"
      [] t = "map[string]string" -> "Map"
      [] IsPtrType(t)        -> "Ptr"
      [] OTHER               -> "Struct"

\* width in bits of an integer type (int and uint are 64 bits wide)
Bits(t) ==
    CASE t \in {"int8", "uint8"}   -> 8
      [] t \in {"int16", "uint16"} -> 16
      [] t \in {"int32", "uint32"} -> 32
      [] OTHER                     -> 64

(***************************************************************************)
(* Go values, tagged by their dynamic type.                                *)
(***************************************************************************)
StrVal(s)   == [t |-> "string", v |-> s]
IntVal(n)   == [t |-> "int", v |-> n]
FloatVal(m, d) == [t |-> "float", v |-> <<m, d>>]   \* m * 10^-d
BoolVal(b)  == [t |-> "bool", v |-> b]
BytesVal(b) == [t |-> "bytes", v |-> b]
PtrVal(x)   == [t |-> "ptr", v |-> x]
NilVal      == [t |-> "nil", v |-> 0]
OpaqueVal(k) == [t |-> k, v |-> 0]

ZeroBytes == [i \in 1..16 |-> 0]

\* reflect.Zero of a type
Zero(t) ==
    CASE Kind(t) = "String" -> StrVal("")
      [] Kind(t) \in {"Int", "Uint"} -> IntVal(0)
      [] Kind(t) = "Float"  -> FloatVal(0, 0)
      [] Kind(t) = "Bool"   -> BoolVal(FALSE)
      [] Kind(t) = "Array"  -> BytesVal(ZeroBytes)
      [] Kind(t) \in {"Ptr", "Slice", "Map"} -> NilVal
      [] OTHER              -> OpaqueVal("struct")

(***************************************************************************)
(* strconv: ParseInt(s, 10, 64), ParseUint(s, 10, 64), ParseBool,          *)
(* ParseFloat(s, 64).  A parse yields [ok, v].                             *)
(***************************************************************************)
Digits == "0123456789"
IsDigit(c) == IndexIn(c, Digits) > 0
DigitVal(c) == IndexIn(c, Digits) - 1

RECURSIVE AllDigits(_)
AllDigits(s) == Len(s) = 0 \/ (IsDigit(CharAt(s, 1)) /\ AllDigits(SubSeq(s, 2, Len(s))))

RECURSIVE StripZeros(_)
StripZeros(s) ==
    IF Len(s) > 1 /\ CharAt(s, 1) = "0" THEN StripZeros(SubSeq(s, 2, Len(s))) ELSE s

\* a <= b for digit strings of equal length
RECURSIVE DigitsLeq(_, _)
DigitsLeq(a, b) ==
    IF Len(a) = 0 THEN TRUE
    ELSE IF DigitVal(CharAt(a, 1)) < DigitVal(CharAt(b, 1)) THEN TRUE
    ELSE IF DigitVal(CharAt(a, 1)) > DigitVal(CharAt(b, 1)) THEN FALSE
    ELSE DigitsLeq(SubSeq(a, 2, Len(a)), SubSeq(b, 2, Len(b)))

\* the digit string denotes a value <= max (max given in decimal)
FitsDecimal(ds, max) ==
    LET d == StripZeros(ds)
    IN  Len(d) < Len(max) \/ (Len(d) = Len(max) /\ DigitsLeq(d, max))

MaxInt64Text  == "9223372036854775807"
MinInt64Text  == "9223372036854775808"
MaxUint64Text == "18446744073709551615"

\* value of a digit string; the model's texts denote values below 2^31
\* whenever they are within the 64-bit range
RECURSIVE DecimalValue(_, _)
DecimalValue(s, acc) ==
    IF Len(s) = 0 THEN acc
    ELSE DecimalValue(SubSeq(s, 2, Len(s)), acc * 10 + DigitVal(CharAt(s, 1)))

ParseFail == [ok |-> FALSE, v |-> 0]

ParseUint(s) ==
    IF Len(s) = 0 \/ ~AllDigits(s) \/ ~FitsDecimal(s, MaxUint64Text)
    THEN ParseFail
    ELSE [ok |-> TRUE, v |-> DecimalValue(StripZeros(s), 0)]

ParseInt(s) ==
    LET neg  == Len(s) > 0 /\ CharAt(s, 1) = "-"
        sign == Len(s) > 0 /\ CharAt(s, 1) \in {"-", "+"}
        ds   == IF sign THEN SubSeq(s, 2, Len(s)) ELSE s
    IN  IF Len(ds) = 0 \/ ~AllDigits(ds)
           \/ ~FitsDecimal(ds, IF neg THEN MinInt64Text ELSE MaxInt64Text)
        THEN ParseFail
        ELSE [ok |-> TRUE,
              v  |-> IF neg THEN 0 - DecimalValue(StripZeros(ds), 0)
                            ELSE DecimalValue(StripZeros(ds), 0)]

ParseBool(s) ==
    IF s \in {"1", "t", "T", "TRUE", "true", "True"} THEN [ok |-> TRUE, v |-> TRUE]
    ELSE IF s \in {"0", "f", "F", "FALSE", "false", "False"} THEN [ok |-> TRUE, v |-> FALSE]
    ELSE [ok |-> FALSE, v |-> FALSE]

\* the decimal point's position in s, 0 when there is none
DotIndex(s) == IndexIn(".", s)

\* ParseFloat on the decimal forms [sign]digits[.digits]; the model's texts
\* hold no exponent, hexadecimal, infinity or NaN form
ParseFloat(s) ==
    LET neg  == Len(s) > 0 /\ CharAt(s, 1) = "-"
        sign == Len(s) > 0 /\ CharAt(s, 1) \in {"-", "+"}
        body == IF sign THEN SubSeq(s, 2, Len(s)) ELSE s
        dot  == DotIndex(body)
        ip   == IF dot = 0 THEN body ELSE SubSeq(body, 1, dot - 1)
        fp   == IF dot = 0 THEN "" ELSE SubSeq(body, dot + 1, Len(body))
        m    == DecimalValue(ip \o fp, 0)
    IN  IF Len(ip \o fp) = 0 \/ ~AllDigits(ip) \/ ~AllDigits(fp)
        THEN [ok |-> FALSE, v |-> <<0, 0>>]
        ELSE [ok |-> TRUE, v |-> <<IF neg THEN 0 - m ELSE m, Len(fp)>>]

(***************************************************************************)
(* parseUUID and bindValue.                                                *)
(***************************************************************************)
HexDigits == "0123456789abcdefABCDEF"
IsHex(c) == IndexIn(c, HexDigits) > 0
HexVal(c) == LET i == IndexIn(c, HexDigits) IN IF i > 16 THEN i - 7 ELSE i - 1

RECURSIVE SkipSpace(_)
SkipSpace(s) ==
    IF Len(s) > 0 /\ CharAt(s, 1) = " " THEN SkipSpace(SubSeq(s, 2, Len(s))) ELSE s

\* fmt.Sscanf(pair, "%02x", &b): leading spaces are skipped, then at most
\* two hexadecimal digits are read; input left over is not an error
ScanHexByte(pair) ==
    LET p == SkipSpace(pair)
    IN  IF Len(p) = 0 \/ ~IsHex(CharAt(p, 1)) THEN ParseFail
        ELSE IF Len(p) > 1 /\ IsHex(CharAt(p, 2))
             THEN [ok |-> TRUE, v |-> 16 * HexVal(CharAt(p, 1)) + HexVal(CharAt(p, 2))]
             ELSE [ok |-> TRUE, v |-> HexVal(CharAt(p, 1))]

parseUUID(raw) ==
    LET s == StripHyphens(raw)
        pair(i) == ScanHexByte(SubSeq(s, 2 * i - 1, 2 * i))
    IN  IF Len(s) # 32 THEN [ok |-> FALSE, v |-> ZeroBytes]
        ELSE IF \E i \in 1..16 : ~pair(i).ok THEN [ok |-> FALSE, v |-> ZeroBytes]
        ELSE [ok |-> TRUE, v |-> [i \in 1..16 |-> pair(i).v]]

\* two's complement narrowing of reflect.Value.SetInt / SetUint; the model's
\* integers are below 2^31, so only widths 8 and 16 can narrow
Pow2(n) == IF n = 8 THEN 256 ELSE 65536
NarrowInt(n, bits) ==
    IF bits >= 32 THEN n
    ELSE LET m == n % Pow2(bits)
         IN  IF m >= Pow2(bits) \div 2 THEN m - Pow2(bits) ELSE m
NarrowUint(n, bits) == IF bits >= 32 THEN n ELSE n % Pow2(bits)

Bound(val)  == [err |-> "", val |-> val]
Failed(msg, cur) == [err |-> msg, val |-> cur]

\* bindValue(structField, rawValue): t is the field's type, cur its value;
\* the result holds the error text ("" for nil) and the field's value after
RECURSIVE bindValue(_, _, _)
bindValue(t, cur, rawValue) ==
    IF Kind(t) = "Array" /\ t = "[16]byte" THEN
        LET parsed == parseUUID(rawValue)
        IN  IF ~parsed.ok THEN Failed("invalid UUID format", cur)
            ELSE Bound(BytesVal(parsed.v))
    ELSE IF Kind(t) = "String" THEN Bound(StrVal(rawValue))
    ELSE IF Kind(t) = "Ptr" /\ Kind(ElemType(t)) = "String" THEN
        Bound(PtrVal(StrVal(rawValue)))
    ELSE IF Kind(t) = "Int" THEN
        LET intVal == ParseInt(rawValue)
        IN  IF ~intVal.ok THEN Failed("must be a valid integer", cur)
            ELSE Bound(IntVal(NarrowInt(intVal.v, Bits(t))))
    ELSE IF Kind(t) = "Uint" THEN
        LET uintVal == ParseUint(rawValue)
        IN  IF ~uintVal.ok THEN Failed("must be a valid unsigned integer", cur)
            ELSE Bound(IntVal(NarrowUint(uintVal.v, Bits(t))))
    ELSE IF Kind(t) = "Float" THEN
        LET floatVal == ParseFloat(rawValue)
        IN  IF ~floatVal.ok THEN Failed("must be a valid number", cur)
            ELSE Bound(FloatVal(floatVal.v[1], floatVal.v[2]))
    ELSE IF Kind(t) = "Bool" THEN
        LET boolVal == ParseBool(rawValue)
        IN  IF ~boolVal.ok THEN Failed("must be a valid boolean", cur)
            ELSE Bound(BoolVal(boolVal.v))
    ELSE IF Kind(t) = "Ptr" THEN
        LET newElem == bindValue(ElemType(t), Zero(ElemType(t)), rawValue)
        IN  IF newElem.err # "" THEN Failed(newElem.err, cur)
            ELSE Bound(PtrVal(newElem.val))
    ELSE Failed("unsupported type for binding", cur)

(***************************************************************************)
(* errs.BindError and createFieldError.  A selector is <<>> when nil and   *)
(* <<name>> when it points to name.                                        *)
(***************************************************************************)
NoSel == <<>>
EmptyBindError ==
    [Field |-> NoSel, Query |-> NoSel, Param |-> NoSel, Form |-> NoSel,
     Header |-> NoSel, Error |-> ""]

\* createFieldError setting the Field selector next to the source's own
createFieldErrorAndField(fieldName, message, source) ==
    LET name == ToLower(fieldName)
        fieldError == [EmptyBindError EXCEPT !.Error = message, !.Field = <<name>>]
    IN  CASE source = "param"  -> [fieldError EXCEPT !.Param = <<name>>]
          [] source = "query"  -> [fieldError EXCEPT !.Query = <<name>>]
          [] source = "form"   -> [fieldError EXCEPT !.Form = <<name>>]
          [] source = "header" -> [fieldError EXCEPT !.Header = <<name>>]
          [] OTHER             -> fieldError

createFieldError(fieldName, message, source) ==
    LET name == ToLower(fieldName)
        fieldError == [EmptyBindError EXCEPT !.Error = message]
    IN  CASE source = "param"  -> [fieldError EXCEPT !.Param = <<name>>]
          [] source = "query"  -> [fieldError EXCEPT !.Query = <<name>>]
          [] source = "form"   -> [fieldError EXCEPT !.Form = <<name>>]
          [] source = "header" -> [fieldError EXCEPT !.Header = <<name>>]
          [] source = "json"   -> [fieldError EXCEPT !.Field = <<name>>]
          [] OTHER             -> fieldError

(***************************************************************************)
(* JSON values of the body, and the coarse type check.                     *)
(***************************************************************************)
JStr(s)  == [t |-> "string", v |-> s]
JNum(lit) == [t |-> "number", v |-> lit]     \* lit: the number literal's text
JBool(b) == [t |-> "boolean", v |-> b]
JNull    == [t |-> "null", v |-> 0]
JArr(elems) == [t |-> "array", v |-> elems]
JObj(members) == [t |-> "object", v |-> members]
Member(k, val) == [key |-> k, val |-> val]

\* getJSONType: the class of a value decoded into any
getJSONType(v) ==
    IF v.t \in {"string", "number", "boolean", "array", "object", "null"}
    THEN v.t ELSE "unknown"

getTypeString(t) ==
    CASE Kind(t) = "String" -> "string"
      [] Kind(t) \in {"Int", "Uint", "Float"} -> "number"
      [] Kind(t) = "Bool" -> "boolean"
      [] Kind(t) \in {"Slice", "Array"} -> "array"
      [] Kind(t) \in {"Struct", "Map"} -> "object"
      [] OTHER -> t

\* isTypeCompatible letting null pass for every expected type
isTypeCompatibleNullable(expectedType, actualValue) ==
    LET actualType == getJSONType(actualValue)
    IN  \/ actualType = "null"
        \/ CASE Kind(expectedType) = "String" -> actualType = "string"
              [] Kind(expectedType) \in {"Int", "Uint", "Float"} -> actualType = "number"
              [] Kind(expectedType) = "Bool" -> actualType = "boolean"
              [] Kind(expectedType) \in {"Slice", "Array"} -> actualType = "array"
              [] Kind(expectedType) \in {"Struct", "Map"} -> actualType = "object"
              [] OTHER -> TRUE

isTypeCompatible(expectedType, actualValue) ==
    LET actualType == getJSONType(actualValue)
    IN  CASE Kind(expectedType) = "String" -> actualType = "string"
          [] Kind(expectedType) \in {"Int", "Uint", "Float"} -> actualType = "number"
          [] Kind(expectedType) = "Bool" -> actualType = "boolean"
          [] Kind(expectedType) \in {"Slice", "Array"} -> actualType = "array"
          [] Kind(expectedType) \in {"Struct", "Map"} -> actualType = "object"
          [] OTHER -> TRUE

(***************************************************************************)
(* Target types.  A field is its Go name, its Go type and its struct tags  *)
(* ("" for a tag the field does not carry).  The repository's payload      *)
(* types are not part of the binder; these three cover the tag shapes the  *)
(* binder distinguishes.                                                   *)
(***************************************************************************)
Fld(name, type, param, query, form, header, json) ==
    [Name |-> name, Type |-> type, param |-> param, query |-> query,
     form |-> form, header |-> header, json |-> json]

\* sourced fields only; Cursor carries all four source tags
ListTodosQuery ==
    << Fld("Cursor", "int",      "cursor", "cursor", "cursor", "x-cursor", ""),
       Fld("Limit",  "int8",     "",       "limit",  "",       "",         "") >>

\* a path parameter and a JSON body
UpdateTodoPayload ==
    << Fld("ID",      "[16]byte", "id", "", "", "", ""),
       Fld("Title",   "string", "",   "", "", "", "title"),
       Fld("DueDate", "int",      "",   "", "", "", "due_date"),
       Fld("Done",    "*bool",    "",   "", "", "", "done,omitempty") >>

\* form and header fields, and a field with both a query and a json tag
LoginForm ==
    << Fld("Email",    "string", "", "",         "email", "",        ""),
       Fld("Token",    "string", "", "",         "",      "x-token", "-"),
       Fld("Remember", "bool",   "", "remember", "",      "",        "remember") >>

Payloads == << ListTodosQuery, UpdateTodoPayload, LoginForm >>

\* targets that put one coercion or one JSON field type on its own
GetTodoParams ==
    << Fld("ID", "[16]byte", "id", "", "", "", "") >>

PageQuery ==
    << Fld("Page",   "int8",  "", "page",   "", "", ""),
       Fld("Size",   "uint8", "", "size",   "", "", ""),
       Fld("Offset", "int",   "", "offset", "", "", "") >>

\* query before param in declaration order, and a field with both tags
SearchParams ==
    << Fld("Q",    "int8",   "",   "q",  "", "", ""),
       Fld("ID",   "int",    "id", "id", "", "", ""),
       Fld("Note", "string", "",   "",   "", "", "note") >>

JSONValueTypes ==
    << "string", "int", "uint8", "float64", "bool", "*bool", "[]string",
       "map[string]string", "time.Time" >>

\* a target with the single JSON-bound field V of type t
JSONValue(t) == << Fld("V", t, "", "", "", "", "v") >>

ValueTargets ==
    << GetTodoParams, PageQuery, SearchParams >>
        \o [k \in 1..Len(JSONValueTypes) |-> JSONValue(JSONValueTypes[k])]

TargetTypes == Payloads \o ValueTargets

Fields == TargetTypes[typ]
NumField == Len(Fields)

\* reflect.Value.CanSet of a field of an addressable struct: the field is
\* exported, i.e. its name starts with an upper-case letter
CanSet(field) == IndexIn(CharAt(field.Name, 1), UpperLetters) > 0

ZeroTarget(ty) == [i \in 1..Len(TargetTypes[ty]) |-> Zero(TargetTypes[ty][i].Type)]

(***************************************************************************)
(* The request.  body: content type, whether reading it succeeds, its      *)
(* syntax as JSON, its top-level JSON value, its form values.              *)
(***************************************************************************)
NoForm == [n \in {} |-> ""]

Body(ctype, readable, syntax, top, form) ==
    [ctype |-> ctype, readable |-> readable, syntax |-> syntax, top |-> top,
     form |-> form]

UnreadableBody == Body("json", FALSE, "empty", JNull, NoForm)
EmptyBody      == Body("json", TRUE, "empty", JNull, NoForm)
MalformedBody  == Body("json", TRUE, "invalid", JNull, NoForm)   \* {"a":
NullBody       == Body("json", TRUE, "valid", JNull, NoForm)
ArrayBody      == Body("json", TRUE, "valid", JArr(<<JNum("1")>>), NoForm)
ObjectBody(members) == Body("json", TRUE, "valid", JObj(members), NoForm)
\* an application/x-www-form-urlencoded body; as JSON it does not parse
FormBody(form) == Body("form", TRUE, "invalid", JNull, form)

Lookup(values, name) == IF name \in DOMAIN values THEN values[name] ELSE ""

\* echo.Context.Param, QueryParam; http.Header.Get
Param(name)      == Lookup(req.param, name)
QueryParam(name) == Lookup(req.query, name)
HeaderGet(name)  == Lookup(req.header, CanonicalHeaderKey(name))

\* echo.Context.FormValue is http.Request.FormValue: the parsed form holds
\* the values of a form body first and those of the URL query after them
FormValue(name) ==
    IF req.body.ctype = "form" /\ req.body.readable /\ name \in DOMAIN req.body.form
    THEN req.body.form[name]
    ELSE QueryParam(name)

Sources == <<"param", "query", "form", "header">>

getParamValue(field, source) ==
    LET tag == field[source]
    IN  IF tag = "" \/ tag = "-" THEN ""
        ELSE LET tagName == TagName(tag)
             IN  CASE source = "param"  -> Param(tagName)
                   [] source = "query"  -> QueryParam(tagName)
                   [] source = "form"   -> FormValue(tagName)
                   [] source = "header" -> HeaderGet(tagName)
                   [] OTHER             -> ""

(***************************************************************************)
(* Entries of an error list.  e is the errs.BindError; stage, fld and key  *)
(* record what produced it (the stage, the index of the field concerned or *)
(* 0, the JSON key or "") and are read by no operation of the program.     *)
(***************************************************************************)
Entry(e, stage, fld, key) == [e |-> e, stage |-> stage, fld |-> fld, key |-> key]

Errs(entries) == [i \in 1..Len(entries) |-> entries[i].e]

(***************************************************************************)
(* CustomBinder.BindParams.                                                *)
(***************************************************************************)
\* FirstSource with the priority order reversed
LastSource(field) ==
    IF \E k \in 1..Len(Sources) : getParamValue(field, Sources[k]) # ""
    THEN CHOOSE k \in 1..Len(Sources) :
            /\ getParamValue(field, Sources[k]) # ""
            /\ \A j \in (k + 1)..Len(Sources) : getParamValue(field, Sources[j]) = ""
    ELSE 0

\* the loop over param, query, form, header: the index in Sources of the
\* first source whose value is not empty, 0 when there is none
FirstSource(field) ==
    IF \E k \in 1..Len(Sources) : getParamValue(field, Sources[k]) # ""
    THEN CHOOSE k \in 1..Len(Sources) :
            /\ getParamValue(field, Sources[k]) # ""
            /\ \A j \in 1..(k - 1) : getParamValue(field, Sources[j]) = ""
    ELSE 0

\* BindParamsFrom returning at the first field that fails coercion
RECURSIVE BindParamsFromStopping(_, _, _)
BindParamsFromStopping(i, tgt, errors) ==
    IF i > NumField \/ Len(errors) > 0 THEN [target |-> tgt, errors |-> errors]
    ELSE LET field == Fields[i]
             k     == FirstSource(field)
         IN  IF ~CanSet(field) \/ k = 0 THEN BindParamsFromStopping(i + 1, tgt, errors)
             ELSE LET source == Sources[k]
                      r == bindValue(field.Type, tgt[i], getParamValue(field, source))
                  IN  BindParamsFromStopping(i + 1, [tgt EXCEPT ![i] = r.val],
                          IF r.err # ""
                          THEN Append(errors,
                                   Entry(createFieldError(field.Name, r.err, source),
                                         "source", i, ""))
                          ELSE errors)

RECURSIVE BindParamsFrom(_, _, _)
BindParamsFrom(i, tgt, errors) ==
    IF i > NumField THEN [target |-> tgt, errors |-> errors]
    ELSE LET field == Fields[i]
             k     == FirstSource(field)
         IN  IF ~CanSet(field) \/ k = 0 THEN BindParamsFrom(i + 1, tgt, errors)
             ELSE LET source == Sources[k]
                      r == bindValue(field.Type, tgt[i], getParamValue(field, source))
                  IN  BindParamsFrom(i + 1, [tgt EXCEPT ![i] = r.val],
                          IF r.err # ""
                          THEN Append(errors,
                                   Entry(createFieldError(field.Name, r.err, source),
                                         "source", i, ""))
                          ELSE errors)

\* BindParams reporting no error after the first one
BindParamsFirstError(tgt) ==
    LET r == BindParamsFrom(1, tgt, <<>>)
    IN  [target |-> r.target,
         errors |-> IF Len(r.errors) > 1 THEN <<r.errors[1]>> ELSE r.errors]

BindParams(tgt) == BindParamsFrom(1, tgt, <<>>)

\* BindParams has called FormValue, which parses the request's form and, for
\* a form body, reads the body to its end
FormParsed ==
    \E i \in 1..NumField :
        /\ CanSet(Fields[i])
        /\ Fields[i].form \notin {"", "-"}
        /\ getParamValue(Fields[i], "param") = ""
        /\ getParamValue(Fields[i], "query") = ""

(***************************************************************************)
(* CustomBinder.BindBody: io.ReadAll, json.Unmarshal into map[string]any,  *)
(* validateJSONStructure, json.Unmarshal into the target.                  *)
(***************************************************************************)
ReadAllFails == ~req.body.readable

\* len(bodyBytes) == 0
BodyIsEmpty ==
    \/ req.body.syntax = "empty"
    \/ req.body.ctype = "form" /\ FormParsed

\* RawMapFails when a top-level value of any type is accepted
RawMapFailsSyntaxOnly == req.body.syntax = "invalid"

\* json.Unmarshal(bodyBytes, &rawMap) returns an error: the bytes are not
\* JSON, or their top-level value is neither an object nor null
RawMapFails ==
    \/ req.body.syntax = "invalid"
    \/ req.body.top.t \notin {"object", "null"}

BodyMembers == IF req.body.top.t = "object" THEN req.body.top.v ELSE <<>>

\* rawMap: a repeated key keeps its last value
RawMapKeys == {BodyMembers[i].key : i \in 1..Len(BodyMembers)}
RawMapValue(k) ==
    LET last == CHOOSE i \in 1..Len(BodyMembers) :
                    /\ BodyMembers[i].key = k
                    /\ \A j \in (i + 1)..Len(BodyMembers) : BodyMembers[j].key # k
    IN  BodyMembers[last].val

\* IsJSONField without the test of the four source tags
IsJSONFieldAnySource(i) == Fields[i].json \notin {"", "-"}

\* getJSONFields: the fields that carry a json name and none of the four
\* source tags; IsJSONField(i) says field i is put in the map
IsJSONField(i) ==
    /\ Fields[i].param = "" /\ Fields[i].query = ""
    /\ Fields[i].form = "" /\ Fields[i].header = ""
    /\ Fields[i].json \notin {"", "-"}

JSONFieldNames == {TagName(Fields[i].json) : i \in {j \in 1..NumField : IsJSONField(j)}}

\* the field whose type the map holds under name: the last one declared
JSONFieldIndex(name) ==
    CHOOSE i \in 1..NumField :
        /\ IsJSONField(i) /\ TagName(Fields[i].json) = name
        /\ \A j \in (i + 1)..NumField :
               ~(IsJSONField(j) /\ TagName(Fields[j].json) = name)

getJSONFields ==
    [name \in JSONFieldNames |->
        LET fieldType == Fields[JSONFieldIndex(name)].Type
        IN  IF Kind(fieldType) = "Ptr" THEN ElemType(fieldType) ELSE fieldType]

\* the field, if any, that declares key as its json name (0 when none)
FieldOfKey(key) ==
    IF \E i \in 1..NumField : Fields[i].json \notin {"", "-"} /\ TagName(Fields[i].json) = key
    THEN CHOOSE i \in 1..NumField :
            Fields[i].json \notin {"", "-"} /\ TagName(Fields[i].json) = key
    ELSE 0

\* the body of the loop of validateJSONStructure for one key
CheckKey(fieldName) ==
    LET validFields == getJSONFields
        rawValue    == RawMapValue(fieldName)
    IN  IF fieldName \notin DOMAIN validFields
        THEN << Entry([EmptyBindError EXCEPT !.Field = <<fieldName>>,
                                             !.Error = "unknown field"],
                      "structure", FieldOfKey(fieldName), fieldName) >>
        ELSE IF ~isTypeCompatible(validFields[fieldName], rawValue)
        THEN << Entry([EmptyBindError EXCEPT
                          !.Field = <<fieldName>>,
                          !.Error = "expected " \o getTypeString(validFields[fieldName])
                                      \o " but got " \o getJSONType(rawValue)],
                      "structure", FieldOfKey(fieldName), fieldName) >>
        ELSE <<>>

\* validateJSONStructure when range rawMap yields the keys in the order keys
RECURSIVE validateJSONStructure(_)
validateJSONStructure(keys) ==
    IF Len(keys) = 0 THEN <<>>
    ELSE CheckKey(Head(keys)) \o validateJSONStructure(Tail(keys))

\* the orders in which range may yield the keys of a map: every order,
\* Go leaves the iteration order of a map unspecified and randomises it
Orders(keySet) ==
    {o \in [1..Cardinality(keySet) -> keySet] :
        \A a, b \in DOMAIN o : a # b => o[a] # o[b]}

MapRangeOrders == Orders(RawMapKeys)

(***************************************************************************)
(* json.Unmarshal(bodyBytes, i) into the target struct (encoding/json).    *)
(***************************************************************************)
\* the name encoding/json knows a field by; "" when the field is left out
\* (unexported, or tagged "-")
DecodeName(field) ==
    IF ~CanSet(field) \/ field.json = "-" THEN ""
    ELSE IF TagName(field.json) = "" THEN field.Name
    ELSE TagName(field.json)

\* the field a key is decoded into: an exact match of the name first, then
\* the first match that ignores case; 0 when the key is skipped
DecodeField(key) ==
    IF \E i \in 1..NumField : DecodeName(Fields[i]) = key /\ key # ""
    THEN CHOOSE i \in 1..NumField :
            /\ DecodeName(Fields[i]) = key
            /\ \A j \in (i + 1)..NumField : DecodeName(Fields[j]) # key
    ELSE IF \E i \in 1..NumField :
                DecodeName(Fields[i]) # "" /\ ToLower(DecodeName(Fields[i])) = ToLower(key)
    THEN CHOOSE i \in 1..NumField :
            /\ DecodeName(Fields[i]) # "" /\ ToLower(DecodeName(Fields[i])) = ToLower(key)
            /\ \A j \in 1..(i - 1) :
                  ~(DecodeName(Fields[j]) # ""
                      /\ ToLower(DecodeName(Fields[j])) = ToLower(key))
    ELSE 0

\* time.Parse with the RFC 3339 layout, for the UTC form without fraction
\* yyyy-mm-ddThh:mm:ssZ
IsRFC3339(s) ==
    /\ Len(s) = 20
    /\ \A i \in {1, 2, 3, 4, 6, 7, 9, 10, 12, 13, 15, 16, 18, 19} : IsDigit(CharAt(s, i))
    /\ CharAt(s, 5) = "-" /\ CharAt(s, 8) = "-" /\ CharAt(s, 11) = "T"
    /\ CharAt(s, 14) = ":" /\ CharAt(s, 17) = ":" /\ CharAt(s, 20) = "Z"

\* the value of a field of type t, now cur, after decoding jv into it; a
\* value that does not fit the type leaves what it cannot fill unchanged
\* (the UnmarshalTypeError is dropped by BindBody)
RECURSIVE DecodeInto(_, _, _)
DecodeInto(t, cur, jv) ==
    IF jv.t = "null" THEN
        IF Kind(t) \in {"Ptr", "Slice", "Map"} THEN NilVal ELSE cur
    ELSE IF Kind(t) = "Ptr" THEN
        \* indirect() allocates the pointer before the value is looked at
        PtrVal(DecodeInto(ElemType(t),
                          IF cur.t = "ptr" THEN cur.v ELSE Zero(ElemType(t)), jv))
    ELSE IF Kind(t) = "String" THEN
        IF jv.t = "string" THEN StrVal(jv.v) ELSE cur
    ELSE IF Kind(t) = "Int" THEN
        IF jv.t = "number" /\ ParseInt(jv.v).ok
              /\ NarrowInt(ParseInt(jv.v).v, Bits(t)) = ParseInt(jv.v).v
        THEN IntVal(ParseInt(jv.v).v) ELSE cur
    ELSE IF Kind(t) = "Uint" THEN
        IF jv.t = "number" /\ ParseUint(jv.v).ok
              /\ NarrowUint(ParseUint(jv.v).v, Bits(t)) = ParseUint(jv.v).v
        THEN IntVal(ParseUint(jv.v).v) ELSE cur
    ELSE IF Kind(t) = "Float" THEN
        IF jv.t = "number" /\ ParseFloat(jv.v).ok
        THEN FloatVal(ParseFloat(jv.v).v[1], ParseFloat(jv.v).v[2]) ELSE cur
    ELSE IF Kind(t) = "Bool" THEN
        IF jv.t = "boolean" THEN BoolVal(jv.v) ELSE cur
    ELSE IF Kind(t) = "Array" THEN
        IF jv.t = "array"
        THEN BytesVal([i \in 1..16 |->
                 IF i <= Len(jv.v)
                 THEN DecodeInto("uint8", IntVal(cur.v[i]), jv.v[i]).v
                 ELSE 0])
        ELSE cur
    ELSE IF Kind(t) = "Slice" THEN
        IF jv.t = "array"
        THEN [t |-> "slice",
              v |-> [i \in 1..Len(jv.v) |-> DecodeInto("string", StrVal(""), jv.v[i])]]
        ELSE cur
    ELSE IF Kind(t) = "Map" THEN
        \* a map[string]string: the members whose value is a string are set
        IF jv.t = "object"
        THEN [t |-> "map",
              v |-> SelectSeq(jv.v, LAMBDA m : m.val.t = "string")]
        ELSE cur
    ELSE IF t = "time.Time" THEN
        \* Time.UnmarshalJSON sets the time from a string in RFC 3339 form
        IF jv.t = "string" /\ IsRFC3339(jv.v) THEN [t |-> "time", v |-> jv.v] ELSE cur
    ELSE cur

\* json.Unmarshal reports no error for the value jv of a field of type t
\* (the error BindBody drops at its second Unmarshal)
RECURSIVE DecodeAccepts(_, _)
DecodeAccepts(t, jv) ==
    IF jv.t = "null" THEN TRUE
    ELSE CASE Kind(t) = "Ptr"    -> DecodeAccepts(ElemType(t), jv)
           [] Kind(t) = "String" -> jv.t = "string"
           [] Kind(t) = "Int"    ->
                /\ jv.t = "number" /\ ParseInt(jv.v).ok
                /\ NarrowInt(ParseInt(jv.v).v, Bits(t)) = ParseInt(jv.v).v
           [] Kind(t) = "Uint"   ->
                /\ jv.t = "number" /\ ParseUint(jv.v).ok
                /\ NarrowUint(ParseUint(jv.v).v, Bits(t)) = ParseUint(jv.v).v
           [] Kind(t) = "Float"  -> jv.t = "number" /\ ParseFloat(jv.v).ok
           [] Kind(t) = "Bool"   -> jv.t = "boolean"
           [] Kind(t) = "Array"  ->
                /\ jv.t = "array"
                /\ \A i \in 1..Len(jv.v) : i <= 16 => DecodeAccepts("uint8", jv.v[i])
           [] Kind(t) = "Slice"  ->
                jv.t = "array" /\ \A i \in 1..Len(jv.v) : DecodeAccepts("string", jv.v[i])
           [] Kind(t) = "Map"    ->
                /\ jv.t = "object"
                /\ \A i \in 1..Len(jv.v) : DecodeAccepts("string", jv.v[i].val)
           [] t = "time.Time"    -> jv.t = "string" /\ IsRFC3339(jv.v)
           [] OTHER              -> jv.t = "object"

RECURSIVE DecodeMembers(_, _)
DecodeMembers(members, tgt) ==
    IF Len(members) = 0 THEN tgt
    ELSE LET f == DecodeField(Head(members).key)
         IN  DecodeMembers(Tail(members),
                 IF f = 0 THEN tgt
                 ELSE [tgt EXCEPT ![f] = DecodeInto(Fields[f].Type, tgt[f],
                                                     Head(members).val)])

\* json.Unmarshal(bodyBytes, i) for a body that parsed: a top-level null
\* leaves the struct as it is
UnmarshalBody(tgt) == DecodeMembers(BodyMembers, tgt)

(***************************************************************************)
(* BindAndValidate: the merge of binding errors and rule violations.       *)
(***************************************************************************)
\* the names under the five selectors of the binding errors
fieldsWithBindingErrors(bindingErrs) ==
    UNION {{bindingErrs[i].e[sel][1] :
               sel \in {x \in {"Param", "Query", "Field", "Form", "Header"} :
                            bindingErrs[i].e[x] # NoSel}} :
           i \in 1..Len(bindingErrs)}

TagsOf(fieldName) ==
    IF \E i \in 1..NumField : Fields[i].Name = fieldName
    THEN LET i == CHOOSE j \in 1..NumField :
                      /\ Fields[j].Name = fieldName
                      /\ \A k \in 1..(j - 1) : Fields[k].Name # fieldName
         IN  Fields[i]
    ELSE Fld(fieldName, "", "", "", "", "", "")

getFieldSource(fieldName) ==
    LET field == TagsOf(fieldName)
    IN  CASE field.param # ""  -> "param"
          [] field.query # ""  -> "query"
          [] field.form # ""   -> "form"
          [] field.header # "" -> "header"
          [] OTHER             -> "json"

formatValidationMessage(valErr) ==
    CASE valErr.Tag = "required" -> "is required"
      [] valErr.Tag = "email"    -> "must be a valid email address"
      [] valErr.Tag = "uuid"     -> "must be a valid UUID"
      [] OTHER -> ToLower(valErr.Field) \o ": " \o valErr.Tag

FieldIndex(fieldName) == CHOOSE i \in 1..NumField : Fields[i].Name = fieldName

\* the loop over valErrors: the entries appended for the violations that
\* are not skipped
RECURSIVE RuleErrors(_, _)
RuleErrors(valErrors, withBindingErrors) ==
    IF Len(valErrors) = 0 THEN <<>>
    ELSE LET valErr    == Head(valErrors)
             fieldName == ToLower(valErr.Field)
         IN  (IF fieldName \in withBindingErrors THEN <<>>
              ELSE << Entry(createFieldError(valErr.Field,
                                             formatValidationMessage(valErr),
                                             getFieldSource(valErr.Field)),
                            "rule", FieldIndex(valErr.Field), "") >>)
             \o RuleErrors(Tail(valErrors), withBindingErrors)

\* what payload.Validate() may return: violations of any fields the
\* validator visits (the exported ones), reported in declaration order
RECURSIVE InOrder(_, _)
InOrder(i, chosen) ==
    IF i > NumField THEN <<>>
    ELSE (IF i \in chosen THEN <<[Field |-> Fields[i].Name, Tag |-> "required"]>>
          ELSE <<>>) \o InOrder(i + 1, chosen)

ValidationOutcomes ==
    {InOrder(1, chosen) :
        chosen \in {c \in SUBSET {i \in 1..NumField : CanSet(Fields[i])} :
                        Cardinality(c) <= MaxRuleErrs}}

(***************************************************************************)
(* The requests of the model, per target type.                             *)
(***************************************************************************)
GoodUUID == "123e4567-e89b-12d3-a456-426614174000"

\* the object bodies whose members are at most MaxBodyKeys of the candidates
\* taken in any order, each candidate at most once
ObjectBodies(candidates) ==
    {ObjectBody(ms) : ms \in
        UNION {{m \in [1..n -> candidates] :
                   \A a, b \in 1..n : a # b => m[a] # m[b]} : n \in 0..MaxBodyKeys}}

PlainBodies == {UnreadableBody, EmptyBody, MalformedBody, NullBody, ArrayBody}

Request(param, query, header, body) ==
    [param |-> param, query |-> query, header |-> header, body |-> body]

NoValues == [n \in {} |-> ""]

ListTodosRequests ==
    {Request([cursor |-> pc1], [cursor |-> qc, limit |-> ql], "X-Cursor" :> hc, body) :
        pc1 \in {"", "1", "x1"}, qc \in {"", "2"}, ql \in {"", "300", "abc"},
        hc \in {"", "4", "4x"},
        body \in PlainBodies \cup {FormBody([cursor |-> "3"])}
                   \cup ObjectBodies({Member("limit", JNum("5")),
                                      Member("extra", JNum("1"))})}

UpdateTodoRequests ==
    {Request([id |-> id], NoValues, NoValues, body) :
        id \in {"", GoodUUID, "not-a-uuid"},
        body \in PlainBodies
                   \cup ObjectBodies({Member("title", JStr("x")),
                                      Member("title", JNum("5")),
                                      Member("due_date", JStr("old")),
                                      Member("due_date", JNum("1.5")),
                                      Member("done", JStr("yes")),
                                      Member("extra", JNum("1")),
                                      Member("id", JStr("x"))})}

LoginRequests ==
    {Request(NoValues, [email |-> qe, remember |-> qr], "X-Token" :> ht, body) :
        qe \in {"", "q@x"}, qr \in {"", "true", "maybe"}, ht \in {"", "tok"},
        body \in PlainBodies \cup {FormBody([email |-> "f@x"]), FormBody([email |-> ""])}
                   \cup ObjectBodies({Member("remember", JBool(FALSE)),
                                      Member("email", JStr("j@x")),
                                      Member("Token", JStr("t"))})}

\* texts for a 16-byte identifier: well-formed ones, and ones with a wrong
\* length or a character that is not hexadecimal at either place of a pair
UUIDTexts ==
    { "", GoodUUID,
      "123e4567e89b12d3a456426614174000",
      "123E4567-E89B-12D3-A456-426614174ABC",
      "not-a-uuid",
      "123e4567-e89b-12d3-a456-42661417400",
      "123e4567-e89b-12d3-a456-42661417400g",
      "123e4567-e89b-12d3-a456-4266141740g0",
      "123e4567-e89b-12d3-a456-4266141740 0",
      "123e4567-e89b-12d3-a456-42661417400+",
      "123e4567-e89b-12d3-a456-4266141740+0" }

GetTodoRequests ==
    {Request([id |-> id], NoValues, NoValues, EmptyBody) : id \in UUIDTexts}

PageRequests ==
    {Request(NoValues, [page |-> p, size |-> sz, offset |-> o], NoValues, EmptyBody) :
        p \in {"", "127", "128", "-128", "-129", "300", "12a", "+5"},
        sz \in {"", "255", "256", "-1"},
        o \in {"", "9223372036854775808"}}

SearchRequests ==
    {Request([id |-> pid], [q |-> q, id |-> qid], NoValues, body) :
        pid \in {"", "1", "x1"}, q \in {"", "7", "abc"}, qid \in {"", "2", "y2"},
        body \in {EmptyBody, MalformedBody,
                  ObjectBody(<<Member("note", JStr("n"))>>),
                  ObjectBody(<<Member("note", JNum("5")), Member("extra", JNum("1"))>>)}}

\* one value of every JSON class, and numbers and strings of several forms
JSONSamples ==
    { JStr("x"), JStr("2024-01-02T03:04:05Z"), JNum("5"), JNum("1.5"), JNum("300"),
      JBool(TRUE), JNull, JArr(<<JStr("a")>>), JArr(<<JNum("1")>>),
      JObj(<<Member("a", JStr("b"))>>), JObj(<<>>) }

JSONValueRequests ==
    {Request(NoValues, NoValues, NoValues, ObjectBody(<<Member("v", jv)>>)) :
        jv \in JSONSamples}

Requests(ty) ==
    CASE ty = 1 -> ListTodosRequests
      [] ty = 2 -> UpdateTodoRequests
      [] ty = 3 -> LoginRequests
      [] ty = 4 -> GetTodoRequests
      [] ty = 5 -> PageRequests
      [] ty = 6 -> SearchRequests
      [] OTHER  -> JSONValueRequests

(***************************************************************************)
(* State machine.                                                          *)
(***************************************************************************)
Unset == [set |-> FALSE, errs |-> <<>>]
Pending == [status |-> -1, errors |-> <<>>]
\* the Server that New built and Start runs: the HTTP server listens, the
\* database pool, the job service and the Redis client are open
NewServer(job, redis) ==
    [pc |-> "serving", listening |-> TRUE, inflight |-> 0, expired |-> FALSE,
     lnerr |-> FALSE, err |-> "nil", DB |-> "open", Job |-> job,
     Redis |-> redis, closed |-> <<>>]

Serving == NewServer("running", "open")

NoOutcome == [target |-> <<>>, errors |-> <<>>, err |-> "none"]

Init ==
    /\ typ \in 1..Len(Payloads)
    /\ req \in Requests(typ)
    /\ target = ZeroTarget(typ)
    /\ pc = "bind"
    /\ paramErrs = <<>>
    /\ bodyErrs = <<>>
    /\ ctxErrs = Unset
    /\ bindErr = "nil"
    /\ valErrs = <<>>
    /\ validated = FALSE
    /\ allErrors = <<>>
    /\ result = Pending
    /\ afterParams = ZeroTarget(typ)
    /\ run = 1
    /\ prev = NoOutcome
    /\ srv = Serving

\* CustomBinder.Bind, first half: BindParams
BindParamsStep ==
    /\ pc = "bind"
    /\ LET r == BindParams(target)
       IN  /\ target' = r.target
           /\ afterParams' = r.target
           /\ paramErrs' = r.errors
    /\ pc' = "params"
    /\ UNCHANGED <<srv, typ, req, bodyErrs, ctxErrs, bindErr, valErrs, validated,
                   allErrors, result, run, prev>>

\* BindBody returns an error: the body cannot be read, or it is not empty
\* and does not unmarshal into a map
BindBodyFatal ==
    /\ pc = "params"
    /\ ReadAllFails \/ (~BodyIsEmpty /\ RawMapFails)
    /\ bindErr' = "400"
    /\ pc' = "fatal"
    /\ UNCHANGED <<srv, typ, req, target, paramErrs, bodyErrs, ctxErrs, valErrs,
                   validated, allErrors, result, afterParams, run, prev>>

\* BindBodyEmpty without the test of len(bodyBytes): the empty input goes to
\* json.Unmarshal, which rejects it
BindBodyEmptyFatal ==
    /\ pc = "params"
    /\ ~ReadAllFails /\ BodyIsEmpty
    /\ bindErr' = "400"
    /\ pc' = "fatal"
    /\ UNCHANGED <<srv, typ, req, target, paramErrs, bodyErrs, ctxErrs, valErrs,
                   validated, allErrors, result, afterParams, run, prev>>

\* BindBody on an empty body: nil, nil
BindBodyEmpty ==
    /\ pc = "params"
    /\ ~ReadAllFails /\ BodyIsEmpty
    /\ bodyErrs' = <<>>
    /\ pc' = "body"
    /\ UNCHANGED <<srv, typ, req, target, paramErrs, ctxErrs, bindErr, valErrs,
                   validated, allErrors, result, afterParams, run, prev>>

\* BindBodyJSON with a validation that decodes while it checks
BindBodyJSONWriting ==
    /\ pc = "params"
    /\ ~ReadAllFails /\ ~BodyIsEmpty /\ ~RawMapFails
    /\ \E keys \in MapRangeOrders : bodyErrs' = validateJSONStructure(keys)
    /\ target' = UnmarshalBody(target)
    /\ pc' = "structure"
    /\ UNCHANGED <<srv, typ, req, paramErrs, ctxErrs, bindErr, valErrs, validated,
                   allErrors, result, afterParams, run, prev>>

\* BindBody on a body that unmarshals into the map, up to the return of
\* validateJSONStructure
BindBodyJSON ==
    /\ pc = "params"
    /\ ~ReadAllFails /\ ~BodyIsEmpty /\ ~RawMapFails
    /\ \E keys \in MapRangeOrders : bodyErrs' = validateJSONStructure(keys)
    /\ pc' = "structure"
    /\ UNCHANGED <<srv, typ, req, target, paramErrs, ctxErrs, bindErr, valErrs,
                   validated, allErrors, result, afterParams, run, prev>>

\* BindBody, after the validation: the body is unmarshalled into the target
\* and the error of that is dropped
BindBodyUnmarshal ==
    /\ pc = "structure"
    /\ target' = UnmarshalBody(target)
    /\ pc' = "body"
    /\ UNCHANGED <<srv, typ, req, paramErrs, bodyErrs, ctxErrs, bindErr, valErrs,
                   validated, allErrors, result, afterParams, run, prev>>

\* BindAllErrors with the body's errors appended first
BodyErrorsFirst(pErrs, bErrs) == bErrs \o pErrs

\* Bind's allErrors after its two appends
BindAllErrors(pErrs, bErrs) == pErrs \o bErrs

\* c.Set(bindingErrorsKey, allErrors) when the list is not empty
StoreErrors(ctx, errors) ==
    IF Len(errors) > 0 THEN [set |-> TRUE, errs |-> errors] ELSE ctx

\* CustomBinder.Bind, after BindBody returned without an error
BindReturnNil ==
    /\ pc = "body"
    /\ ctxErrs' = StoreErrors(ctxErrs, BindAllErrors(paramErrs, bodyErrs))
    /\ pc' = "bound"
    /\ UNCHANGED <<srv, typ, req, target, paramErrs, bodyErrs, bindErr, valErrs,
                   validated, allErrors, result, afterParams, run, prev>>

\* BindReturnErr when the list is stored before the error is looked at
BindReturnErrStoring ==
    /\ pc = "fatal"
    /\ ctxErrs' = StoreErrors(ctxErrs, paramErrs)
    /\ pc' = "bound"
    /\ UNCHANGED <<srv, typ, req, target, paramErrs, bodyErrs, bindErr, valErrs,
                   validated, allErrors, result, afterParams, run, prev>>

\* CustomBinder.Bind returns the error of BindBody
BindReturnErr ==
    /\ pc = "fatal"
    /\ pc' = "bound"
    /\ UNCHANGED <<srv, typ, req, target, paramErrs, bodyErrs, ctxErrs, bindErr,
                   valErrs, validated, allErrors, result, afterParams, run, prev>>

\* BindAndValidate returns the *echo.HTTPError of c.Bind
ReturnBindError ==
    /\ pc = "bound"
    /\ bindErr = "400"
    /\ result' = [status |-> 400, errors |-> <<>>]
    /\ pc' = "done"
    /\ UNCHANGED <<srv, typ, req, target, paramErrs, bodyErrs, ctxErrs, bindErr,
                   valErrs, validated, allErrors, afterParams, run, prev>>

\* the binding errors BindAndValidate reads back from the context
ContextErrors(ctx) == IF ctx.set THEN ctx.errs ELSE <<>>

\* BindAndValidate's allErrors after payload.Validate() returned valErrors
MergeErrors(bindingErrs, valErrors) ==
    bindingErrs \o RuleErrors(valErrors, fieldsWithBindingErrors(bindingErrs))

\* BindAndValidate, from the read of the context to the end of the loop
\* over the validation errors
Validate ==
    /\ pc = "bound"
    /\ bindErr = "nil"
    /\ \E outcome \in ValidationOutcomes :
          /\ valErrs' = outcome
          /\ allErrors' = MergeErrors(ContextErrors(ctxErrs), outcome)
    /\ validated' = TRUE
    /\ pc' = "validated"
    /\ UNCHANGED <<srv, typ, req, target, paramErrs, bodyErrs, ctxErrs, bindErr,
                   result, afterParams, run, prev>>

\* Response without the test of the list's length
ResponseUnchecked(errors) == [status |-> 422, errors |-> errors]

\* the value BindAndValidate returns for the merged list
Response(errors) ==
    IF Len(errors) > 0 THEN [status |-> 422, errors |-> errors]
    ELSE [status |-> 0, errors |-> <<>>]

Respond ==
    /\ pc = "validated"
    /\ result' = Response(allErrors)
    /\ pc' = "done"
    /\ UNCHANGED <<srv, typ, req, target, paramErrs, bodyErrs, ctxErrs, bindErr,
                   valErrs, validated, allErrors, afterParams, run, prev>>

\* what one Bind produced: the target, the stored list, the returned error
BindOutcome ==
    [target |-> target, errors |-> ContextErrors(ctxErrs), err |-> bindErr]

\* the same raw inputs are bound once more, into a fresh target of the same
\* type and with a fresh context
Replay ==
    /\ pc = "bound"
    /\ run = 1
    /\ prev' = BindOutcome
    /\ run' = 2
    /\ target' = ZeroTarget(typ)
    /\ afterParams' = ZeroTarget(typ)
    /\ paramErrs' = <<>>
    /\ bodyErrs' = <<>>
    /\ ctxErrs' = Unset
    /\ bindErr' = "nil"
    /\ pc' = "bind"
    /\ UNCHANGED <<srv, typ, req, valErrs, validated, allErrors, result>>

Next ==
    \/ BindParamsStep
    \/ BindBodyFatal
    \/ BindBodyEmpty
    \/ BindBodyJSON
    \/ BindBodyUnmarshal
    \/ BindReturnNil
    \/ BindReturnErr
    \/ ReturnBindError
    \/ Validate
    \/ Respond

Spec == Init /\ [][Next]_vars

\* the requests of Spec, each bound a second time after its first bind
NextReplay == Next \/ Replay

SpecReplay == Init /\ [][NextReplay]_vars

\* the request body once a bind has read it: a later read returns no
\* bytes; the values of a form that was parsed stay cached in the request;
\* a body whose read fails keeps failing
Consumed(body) ==
    IF ~body.readable THEN body
    ELSE IF body.ctype = "form" /\ FormParsed
    THEN Body("form", TRUE, "empty", JNull, body.form)
    ELSE EmptyBody

\* BindAndValidate on the targets that hold one coercion or one JSON field
\* type each
InitValue ==
    /\ typ \in (Len(Payloads) + 1)..Len(TargetTypes)
    /\ req \in Requests(typ)
    /\ target = ZeroTarget(typ)
    /\ pc = "bind"
    /\ paramErrs = <<>>
    /\ bodyErrs = <<>>
    /\ ctxErrs = Unset
    /\ bindErr = "nil"
    /\ valErrs = <<>>
    /\ validated = FALSE
    /\ allErrors = <<>>
    /\ result = Pending
    /\ afterParams = ZeroTarget(typ)
    /\ run = 1
    /\ prev = NoOutcome
    /\ srv = Serving

SpecValue == InitValue /\ [][Next]_vars

\* a handler calls BindAndValidate a second time on the same echo.Context,
\* with a fresh payload of any target type: the context keeps what was
\* stored under bindingErrorsKey, the body has been read
Rebind ==
    /\ pc = "done"
    /\ run = 1
    /\ prev' = BindOutcome
    /\ run' = 2
    /\ typ' \in 1..Len(Payloads)
    /\ req' = [req EXCEPT !.body = Consumed(req.body)]
    /\ target' = ZeroTarget(typ')
    /\ afterParams' = ZeroTarget(typ')
    /\ paramErrs' = <<>>
    /\ bodyErrs' = <<>>
    /\ bindErr' = "nil"
    /\ valErrs' = <<>>
    /\ validated' = FALSE
    /\ allErrors' = <<>>
    /\ result' = Pending
    /\ pc' = "bind"
    /\ UNCHANGED <<srv, ctxErrs>>

NextRebind == Next \/ Rebind

SpecRebind == Init /\ [][NextRebind]_vars

(***************************************************************************)
(* The simpler binder variant (Bind, bindParamsWithErrors,                 *)
(* bindJSONWithErrors, getRawValues), as a function of the request.        *)
(***************************************************************************)
\* getRawValues: the path values, or the first value of every query key
getRawValues(source) ==
    CASE source = "param" -> req.param
      [] source = "query" -> req.query
      [] OTHER            -> NoValues

\* bindParamsWithErrors: one pass over the fields for one source
RECURSIVE bindParamsWithErrorsFrom(_, _, _, _)
bindParamsWithErrorsFrom(idx, tgt, errors, source) ==
    IF idx > NumField THEN [target |-> tgt, errors |-> errors]
    ELSE LET field    == Fields[idx]
             tagValue == field[source]
             rawValue == Lookup(getRawValues(source), TagName(tagValue))
         IN  IF tagValue = "" \/ tagValue = "-" \/ ~CanSet(field) \/ rawValue = ""
             THEN bindParamsWithErrorsFrom(idx + 1, tgt, errors, source)
             ELSE LET r == bindValue(field.Type, tgt[idx], rawValue)
                  IN  bindParamsWithErrorsFrom(idx + 1, [tgt EXCEPT ![idx] = r.val],
                          IF r.err # ""
                          THEN Append(errors,
                                   Entry(createFieldError(field.Name, r.err, source),
                                         "source", idx, ""))
                          ELSE errors,
                          source)

bindParamsWithErrors(tgt, source) == bindParamsWithErrorsFrom(1, tgt, <<>>, source)

\* the validFields of bindJSONWithErrors: a json name and no param or query
\* tag
SimplerIsJSONField(i) ==
    /\ Fields[i].json \notin {"", "-"}
    /\ Fields[i].param = "" /\ Fields[i].query = ""

SimplerValidField(key) ==
    \E i \in 1..NumField : SimplerIsJSONField(i) /\ TagName(Fields[i].json) = key

SimplerFieldType(key) ==
    LET i == CHOOSE j \in 1..NumField :
                 /\ SimplerIsJSONField(j) /\ TagName(Fields[j].json) = key
                 /\ \A k \in (j + 1)..NumField :
                        ~(SimplerIsJSONField(k) /\ TagName(Fields[k].json) = key)
        t == Fields[i].Type
    IN  IF Kind(t) = "Ptr" THEN ElemType(t) ELSE t

\* the loop of bindJSONWithErrors over rawMap, in the order keys
RECURSIVE SimplerStructureErrors(_)
SimplerStructureErrors(keys) ==
    IF Len(keys) = 0 THEN <<>>
    ELSE LET fieldName == Head(keys)
             rawValue  == RawMapValue(fieldName)
             here ==
               IF ~SimplerValidField(fieldName)
               THEN << Entry([EmptyBindError EXCEPT !.Field = <<fieldName>>,
                                                    !.Error = "unknown field"],
                             "structure", FieldOfKey(fieldName), fieldName) >>
               ELSE IF ~isTypeCompatible(SimplerFieldType(fieldName), rawValue)
               THEN << Entry([EmptyBindError EXCEPT
                                 !.Field = <<fieldName>>,
                                 !.Error = "expected "
                                     \o getTypeString(SimplerFieldType(fieldName))
                                     \o " but got " \o getJSONType(rawValue)],
                             "structure", FieldOfKey(fieldName), fieldName) >>
               ELSE <<>>
         IN  here \o SimplerStructureErrors(Tail(keys))

\* the simpler Bind: the path pass, the query pass, the body; err is "400"
\* for the fatal body error, "422" when the list is not empty, "nil" else
SimplerBind(keys) ==
    LET pathPass  == bindParamsWithErrors(ZeroTarget(typ), "param")
        queryPass == bindParamsWithErrors(pathPass.target, "query")
        params    == pathPass.errors \o queryPass.errors
    IN  IF ReadAllFails \/ (req.body.syntax # "empty" /\ RawMapFails)
        THEN [err |-> "400", target |-> queryPass.target, errors |-> <<>>]
        ELSE IF req.body.syntax = "empty"
        THEN [err |-> IF Len(params) > 0 THEN "422" ELSE "nil",
              target |-> queryPass.target, errors |-> params]
        ELSE LET all == params \o SimplerStructureErrors(keys)
             IN  [err |-> IF Len(all) > 0 THEN "422" ELSE "nil",
                  target |-> UnmarshalBody(queryPass.target), errors |-> all]

(***************************************************************************)
(* Two requests bound concurrently, each by its own goroutine with its own *)
(* echo.Context and its own payload.  The variables hold the bind whose    *)
(* goroutine runs, prev holds the other one; Switch hands over.  The       *)
(* CustomBinder has no fields and the package has no variable that a bind  *)
(* writes, so nothing stays behind when the goroutines change.             *)
(***************************************************************************)
BindState ==
    [typ |-> typ, req |-> req, target |-> target, pc |-> pc,
     paramErrs |-> paramErrs, bodyErrs |-> bodyErrs, ctxErrs |-> ctxErrs,
     bindErr |-> bindErr, valErrs |-> valErrs, validated |-> validated,
     allErrors |-> allErrors, result |-> result, afterParams |-> afterParams]

FreshBind(ty, rq) ==
    [typ |-> ty, req |-> rq, target |-> ZeroTarget(ty), pc |-> "bind",
     paramErrs |-> <<>>, bodyErrs |-> <<>>, ctxErrs |-> Unset,
     bindErr |-> "nil", valErrs |-> <<>>, validated |-> FALSE,
     allErrors |-> <<>>, result |-> Pending, afterParams |-> ZeroTarget(ty)]

\* the requests that are bound side by side: one with a coercion error, one
\* with structural errors, one with a form, one with a fatal body, one clean
ConcurrentBinds ==
    { <<1, Request([cursor |-> "x1"], [cursor |-> "2", limit |-> "abc"],
                   "X-Cursor" :> "4", EmptyBody)>>,
      <<1, Request([cursor |-> ""], [cursor |-> "", limit |-> ""],
                   "X-Cursor" :> "", EmptyBody)>>,
      <<2, Request([id |-> GoodUUID], NoValues, NoValues,
                   ObjectBody(<<Member("title", JStr("x")), Member("extra", JNum("1"))>>))>>,
      <<2, Request([id |-> "not-a-uuid"], NoValues, NoValues, MalformedBody)>>,
      <<3, Request(NoValues, [email |-> "", remember |-> "maybe"], "X-Token" :> "tok",
                   FormBody([email |-> "f@x"]))>> }

InitConcurrent ==
    /\ \E a, b \in ConcurrentBinds :
          /\ typ = a[1] /\ req = a[2]
          /\ prev = FreshBind(b[1], b[2])
    /\ target = ZeroTarget(typ)
    /\ pc = "bind"
    /\ paramErrs = <<>>
    /\ bodyErrs = <<>>
    /\ ctxErrs = Unset
    /\ bindErr = "nil"
    /\ valErrs = <<>>
    /\ validated = FALSE
    /\ allErrors = <<>>
    /\ result = Pending
    /\ afterParams = ZeroTarget(typ)
    /\ run = 1
    /\ srv = Serving

\* Switch with the store of binding errors kept in one place for both
\* requests instead of in each request's context
SwitchSharedStore ==
    /\ prev' = [BindState EXCEPT !.ctxErrs = prev.ctxErrs]
    /\ run' = 3 - run
    /\ typ' = prev.typ /\ req' = prev.req /\ target' = prev.target
    /\ pc' = prev.pc /\ paramErrs' = prev.paramErrs /\ bodyErrs' = prev.bodyErrs
    /\ bindErr' = prev.bindErr /\ valErrs' = prev.valErrs
    /\ validated' = prev.validated /\ allErrors' = prev.allErrors
    /\ result' = prev.result /\ afterParams' = prev.afterParams
    /\ UNCHANGED <<srv, ctxErrs>>

\* the scheduler runs the other request's goroutine
Switch ==
    /\ prev' = BindState
    /\ run' = 3 - run
    /\ typ' = prev.typ /\ req' = prev.req /\ target' = prev.target
    /\ pc' = prev.pc /\ paramErrs' = prev.paramErrs /\ bodyErrs' = prev.bodyErrs
    /\ ctxErrs' = prev.ctxErrs
    /\ bindErr' = prev.bindErr /\ valErrs' = prev.valErrs
    /\ validated' = prev.validated /\ allErrors' = prev.allErrors
    /\ result' = prev.result /\ afterParams' = prev.afterParams
    /\ UNCHANGED srv

NextConcurrent == Next \/ Switch

SpecConcurrent == InitConcurrent /\ [][NextConcurrent]_vars

(***************************************************************************)
(* The shutdown of the process: main waits for the interrupt signal, calls *)
(* Server.Shutdown with a context that expires, and exits.                 *)
(* http.Server.Shutdown closes the listeners and waits until no request is *)
(* being served; it returns the context's error when the context expires   *)
(* first, and the listeners' close error otherwise.                        *)
(***************************************************************************)
\* the binding variables take no part in the shutdown
BindIdle == UNCHANGED <<typ, req, target, pc, paramErrs, bodyErrs, ctxErrs,
                        bindErr, valErrs, validated, allErrors, result,
                        afterParams, run, prev>>

\* a Server as New builds it, or one built as a literal with no job service
\* or no Redis client (as the test server is)
InitShutdown ==
    /\ srv \in { NewServer(job, redis) :
                    job \in {"nil", "running"}, redis \in {"nil", "open"} }
    /\ typ = 1
    /\ req = Request(NoValues, NoValues, NoValues, EmptyBody)
    /\ target = ZeroTarget(typ)
    /\ pc = "bind"
    /\ paramErrs = <<>>
    /\ bodyErrs = <<>>
    /\ ctxErrs = Unset
    /\ bindErr = "nil"
    /\ valErrs = <<>>
    /\ validated = FALSE
    /\ allErrors = <<>>
    /\ result = Pending
    /\ afterParams = ZeroTarget(typ)
    /\ run = 1
    /\ prev = NoOutcome

\* Server.Start: ListenAndServe accepts a request
ServeRequest ==
    /\ srv.listening
    /\ srv.inflight < MaxInFlight
    /\ srv' = [srv EXCEPT !.inflight = @ + 1]
    /\ BindIdle

\* a handler returns
RequestDone ==
    /\ srv.pc \notin {"exited", "fatal"}
    /\ srv.inflight > 0
    /\ srv' = [srv EXCEPT !.inflight = @ - 1]
    /\ BindIdle

\* main: the interrupt arrives, the context with the shutdown timeout is
\* made and Server.Shutdown calls httpServer.Shutdown, which closes the
\* listeners (keeping their close error)
Interrupt ==
    /\ srv.pc = "serving"
    /\ \E failed \in BOOLEAN :
          srv' = [srv EXCEPT !.pc = "httpShutdown", !.listening = FALSE,
                             !.lnerr = failed]
    /\ BindIdle

\* the shutdown context reaches its deadline
Timeout ==
    /\ srv.pc \notin {"serving", "exited", "fatal"}
    /\ ~srv.expired
    /\ srv' = [srv EXCEPT !.expired = TRUE]
    /\ BindIdle

\* Server.Shutdown after httpServer.Shutdown returned err: the early
\* return with the wrapped error, or on to the resources
AfterHTTPShutdown(err) ==
    IF err # "nil"
    THEN [srv EXCEPT !.pc = "returned",
                     !.err = "failed to shutdown HTTP server: " \o err]
    ELSE [srv EXCEPT !.pc = "db"]

\* httpServer.Shutdown finds no request being served
HTTPShutdownIdle ==
    /\ srv.pc = "httpShutdown"
    /\ srv.inflight = 0
    /\ srv' = AfterHTTPShutdown(IF srv.lnerr THEN "close" ELSE "nil")
    /\ BindIdle

\* httpServer.Shutdown gives up at the deadline, requests still served
HTTPShutdownDeadline ==
    /\ srv.pc = "httpShutdown"
    /\ srv.inflight > 0
    /\ srv.expired
    /\ srv' = AfterHTTPShutdown("context deadline exceeded")
    /\ BindIdle

\* s.DB.Close()
CloseDB ==
    /\ srv.pc = "db"
    /\ srv' = [srv EXCEPT !.pc = "job", !.DB = "closed",
                          !.closed = Append(@, "DB")]
    /\ BindIdle

\* if s.Job != nil { s.Job.Stop() }: JobService.Stop, j.server.Shutdown()
StopJob ==
    /\ srv.pc = "job"
    /\ srv' = IF srv.Job = "nil"
              THEN [srv EXCEPT !.pc = "redis"]
              ELSE [srv EXCEPT !.pc = "jobClient", !.Job = "serverDown"]
    /\ BindIdle

\* JobService.Stop, j.Client.Close()
CloseJobClient ==
    /\ srv.pc = "jobClient"
    /\ srv' = [srv EXCEPT !.pc = "redis", !.Job = "stopped",
                          !.closed = Append(@, "Job")]
    /\ BindIdle

\* if s.Redis != nil { s.Redis.Close() }; return nil
CloseRedis ==
    /\ srv.pc = "redis"
    /\ srv' = IF srv.Redis = "nil"
              THEN [srv EXCEPT !.pc = "returned"]
              ELSE [srv EXCEPT !.pc = "returned", !.Redis = "closed",
                               !.closed = Append(@, "Redis")]
    /\ BindIdle

\* main after srv.Shutdown(ctx): log.Fatal on an error, else stop(),
\* cancel() and the return of main
MainExit ==
    /\ srv.pc = "returned"
    /\ srv' = [srv EXCEPT !.pc = IF srv.err # "nil" THEN "fatal" ELSE "exited"]
    /\ BindIdle

NextShutdown ==
    \/ ServeRequest
    \/ RequestDone
    \/ Interrupt
    \/ Timeout
    \/ HTTPShutdownIdle
    \/ HTTPShutdownDeadline
    \/ CloseDB
    \/ StopJob
    \/ CloseJobClient
    \/ CloseRedis
    \/ MainExit

SpecShutdown == InitShutdown /\ [][NextShutdown]_vars

(***************************************************************************)
(* Properties.                                                             *)
(***************************************************************************)
Final == IF result.status = 422 THEN result.errors ELSE <<>>

BindingStages == {"source", "structure"}

\* the list Bind collected in the current bind
Collected == BindAllErrors(paramErrs, bodyErrs)

\* C1: in the list BindAndValidate returns, no rule-validation error is
\* about a field that has a binding-stage error in the same list (a
\* coercion failure of the field, or an unknown-field or type-mismatch error
\* on the field's JSON key).
C1_Suppression ==
    pc = "done" =>
        \A a, b \in 1..Len(Final) :
            ~(/\ Final[a].stage \in BindingStages
              /\ Final[a].fld # 0
              /\ Final[b].stage = "rule"
              /\ Final[b].fld = Final[a].fld)

\* the sourced fields whose resolved text fails coercion
FailingSourced ==
    {i \in 1..NumField :
        /\ CanSet(Fields[i])
        /\ \E k \in 1..Len(Sources) :
              /\ getParamValue(Fields[i], Sources[k]) # ""
              /\ \A j \in 1..(k - 1) : getParamValue(Fields[i], Sources[j]) = ""
              /\ bindValue(Fields[i].Type, Zero(Fields[i].Type),
                           getParamValue(Fields[i], Sources[k])).err # ""}

\* the keys of a parsed body that are unknown or of the wrong coarse type
FailingKeys ==
    IF BodyIsEmpty THEN {}
    ELSE {k \in RawMapKeys :
            \/ ~(\E i \in 1..NumField : IsJSONField(i) /\ TagName(Fields[i].json) = k)
            \/ ~isTypeCompatible(getJSONFields[k], RawMapValue(k))}

\* C2: after a Bind of a readable, parseable body, the collected list has
\* exactly one entry per sourced field that fails coercion and one per key
\* that is unknown or mismatched, and no other entry.
C2_Completeness ==
    (pc = "bound" /\ bindErr = "nil") =>
        /\ Len(Collected) = Cardinality(FailingSourced) + Cardinality(FailingKeys)
        /\ \A i \in FailingSourced :
              Cardinality({a \in 1..Len(Collected) :
                  Collected[a].stage = "source" /\ Collected[a].fld = i}) = 1
        /\ \A k \in FailingKeys :
              Cardinality({a \in 1..Len(Collected) :
                  Collected[a].stage = "structure" /\ Collected[a].key = k}) = 1

C2_Witness ==
    /\ pc = "bound" /\ bindErr = "nil"
    /\ Cardinality(FailingSourced) >= 2
    /\ Cardinality(FailingKeys) >= 2
    /\ Len(Collected) = 4

\* C3: the second bind of the same raw inputs into a fresh target ends with
\* the same target values, the same error list in the same order and the
\* same returned error as the first.
C3_Idempotence ==
    (run = 2 /\ pc = "bound") => BindOutcome = prev

\* the position in Sources of the source the priority order selects for a
\* field: the least one whose value is not empty, 0 when all are empty
PrioritySource(field) ==
    LET nonEmpty == {k \in 1..Len(Sources) : getParamValue(field, Sources[k]) # ""}
    IN  IF nonEmpty = {} THEN 0
        ELSE CHOOSE k \in nonEmpty : \A j \in nonEmpty : k <= j

SelectorOf(source) ==
    CASE source = "param" -> "Param" [] source = "query" -> "Query"
      [] source = "form" -> "Form" [] source = "header" -> "Header"

\* C4: once BindParams has run, every settable field holds the coerced
\* value of the first of param, query, form, header whose value is not
\* empty; when that value does not coerce the field is unchanged and the
\* error is located on that source; when all are empty it is unchanged.
C4_Priority ==
    pc # "bind" =>
        \A i \in 1..NumField :
            LET field == Fields[i]
                k     == PrioritySource(field)
                r     == bindValue(field.Type, Zero(field.Type),
                                   getParamValue(field, Sources[k]))
            IN  CanSet(field) =>
                    IF k = 0 THEN afterParams[i] = Zero(field.Type)
                    ELSE IF r.err = "" THEN afterParams[i] = r.val
                    ELSE /\ afterParams[i] = Zero(field.Type)
                         /\ \E a \in 1..Len(paramErrs) :
                               /\ paramErrs[a].fld = i
                               /\ paramErrs[a].e[SelectorOf(Sources[k])] # NoSel

\* Cursor (param, query, form, header) has no path value, the query value
\* "2" and the header value "4", and is bound to 2
C4_Witness ==
    /\ pc = "params" /\ typ = 1
    /\ Param("cursor") = "" /\ QueryParam("cursor") = "2" /\ HeaderGet("x-cursor") = "4"
    /\ afterParams[1] = IntVal(2)

\* C5: at the end of a bind, every field whose coercion failed still has
\* its zero value.
C5_NoCorruption ==
    (pc = "bound" /\ bindErr = "nil") =>
        \A a \in 1..Len(paramErrs) :
            target[paramErrs[a].fld] = Zero(Fields[paramErrs[a].fld].Type)

\* the body is not empty when BindBody reads it and is not JSON
MalformedJSON ==
    /\ req.body.readable
    /\ req.body.syntax = "invalid"
    /\ ~(req.body.ctype = "form" /\ FormParsed)

\* C6: for a body that is not empty and not syntactically valid JSON, Bind
\* returns the 400 error and stores no list, whatever the sourced fields
\* did, and BindAndValidate returns the 400 error without calling Validate.
C6_MalformedShortCircuits ==
    MalformedJSON =>
        /\ pc \in {"bound", "done"} =>
              bindErr = "400" /\ ctxErrs = Unset /\ ~validated
        /\ pc \notin {"validated"}
        /\ pc = "done" => result = [status |-> 400, errors |-> <<>>]

C6_Witness ==
    /\ pc = "done" /\ MalformedJSON
    /\ Len(paramErrs) > 0
    /\ result.status = 400

\* the body cannot be read
Unreadable == ~req.body.readable

\* the body, as BindBody reads it, is not empty
NonEmptyRead ==
    /\ req.body.readable
    /\ req.body.syntax # "empty"
    /\ ~(req.body.ctype = "form" /\ FormParsed)

FieldLevelMapping ==
    LET fieldErrors ==
            \/ Len(paramErrs) + Len(bodyErrs) > 0
            \/ \E a \in 1..Len(allErrors) : allErrors[a].stage = "rule"
    IN  /\ result.status \in {0, 400, 422}
        /\ result.status = 422 <=> (bindErr = "nil" /\ fieldErrors)
        /\ result.status = 0 <=> (bindErr = "nil" /\ ~fieldErrors)
        /\ result.status = 422 => result.errors = allErrors /\ Len(allErrors) > 0
        /\ result.status # 422 => result.errors = <<>>

C9_GroupOrder ==
    pc = "done" =>
        \A a, b \in 1..Len(Final) :
            a < b =>
                /\ ~(Final[a].stage = "structure" /\ Final[b].stage = "source")
                /\ ~(Final[a].stage = "rule" /\ Final[b].stage \in BindingStages)

C9_Witness ==
    /\ pc = "done"
    /\ Len(Final) >= 3
    /\ \E a, b, c \in 1..Len(Final) :
          /\ Final[a].stage = "source"
          /\ Final[b].stage = "structure"
          /\ Final[c].stage = "rule"

\* the place at which a key is first met in the body
FirstAt(k) ==
    CHOOSE i \in 1..Len(BodyMembers) :
        BodyMembers[i].key = k /\ \A j \in 1..(i - 1) : BodyMembers[j].key # k

\* C10: in the collected list the source-bound errors are in the order their
\* fields are declared and the structural errors are in the order their
\* keys are met in the body.
C10_OrderWithinGroup ==
    (pc = "bound" /\ bindErr = "nil") =>
        \A a, b \in 1..Len(Collected) :
            a < b =>
                /\ (Collected[a].stage = "source" /\ Collected[b].stage = "source")
                      => Collected[a].fld < Collected[b].fld
                /\ (Collected[a].stage = "structure" /\ Collected[b].stage = "structure")
                      => FirstAt(Collected[a].key) < FirstAt(Collected[b].key)

Selectors == {"Param", "Query", "Form", "Header", "Field"}

\* the selectors of a BindError that are set
SelectorsSet(e) == {sel \in Selectors : e[sel] # NoSel}

\* every list of errors the program holds
ErrorLists == <<paramErrs, bodyErrs, ContextErrors(ctxErrs), allErrors, result.errors>>

\* C11: every BindError in any list of the binder or of BindAndValidate
\* (source binding, structural validation, rule validation) has exactly one
\* of Param, Query, Form, Header, Field set.
C11_OneSelector ==
    \A l \in 1..Len(ErrorLists) :
        \A a \in 1..Len(ErrorLists[l]) :
            Cardinality(SelectorsSet(ErrorLists[l][a].e)) = 1

\* a returned list with a query coercion error, a structural error and a
\* rule error of a form field
C11_Witness ==
    /\ pc = "done"
    /\ \E a, b, c \in 1..Len(Final) :
          /\ Final[a].stage = "source" /\ Final[a].e.Query # NoSel
          /\ Final[b].stage = "structure" /\ Final[b].e.Field # NoSel
          /\ Final[c].stage = "rule" /\ Final[c].e.Form # NoSel

\* C12: in the list BindAndValidate returns, the name under the selector
\* that is set is lower-case, whichever stage produced the entry.
C12_LowerCase ==
    pc = "done" =>
        \A a \in 1..Len(Final) :
            \A sel \in SelectorsSet(Final[a].e) :
                Final[a].e[sel][1] = ToLower(Final[a].e[sel][1])

\* a field of type t whose value is val holds the JSON value jv
RECURSIVE HoldsValue(_, _, _)
HoldsValue(t, val, jv) ==
    CASE Kind(t) = "Ptr"    -> val.t = "ptr" /\ HoldsValue(ElemType(t), val.v, jv)
      [] Kind(t) = "String" -> jv.t = "string" /\ val = StrVal(jv.v)
      [] Kind(t) = "Int"    -> /\ jv.t = "number" /\ ParseInt(jv.v).ok
                               /\ val = IntVal(ParseInt(jv.v).v)
      [] Kind(t) = "Bool"   -> jv.t = "boolean" /\ val = BoolVal(jv.v)
      [] OTHER              -> FALSE

\* a bind that got as far as the decode of a body that parsed
BodyDecoded == pc = "bound" /\ bindErr = "nil" /\ ~BodyIsEmpty

\* C13: after a bind with a body that parsed, every JSON-bound field whose
\* key is in the body and passes the structural check holds the body's
\* value, and every JSON-bound field whose key has a type-mismatch error
\* has its zero value, whatever errors the other keys have.
C13_BestEffort ==
    BodyDecoded =>
        \A k \in RawMapKeys :
            k \in DOMAIN getJSONFields =>
                LET i == JSONFieldIndex(k)
                IN  IF isTypeCompatible(getJSONFields[k], RawMapValue(k))
                    THEN HoldsValue(Fields[i].Type, target[i], RawMapValue(k))
                    ELSE target[i] = Zero(Fields[i].Type)

\* no source that field i declares yields a value that is not empty
NoSourceValue(i) ==
    \A k \in 1..Len(Sources) : getParamValue(Fields[i], Sources[k]) = ""

\* the request carries no path, query or header value and an empty body
NoInputs ==
    /\ \A n \in DOMAIN req.param : req.param[n] = ""
    /\ \A n \in DOMAIN req.query : req.query[n] = ""
    /\ \A n \in DOMAIN req.header : req.header[n] = ""
    /\ req.body = EmptyBody

BodyNotRead == pc \in {"bind", "params"}

\* C15: no field of the target is written before the body has been read and
\* parsed, and a bind that ends with the fatal body error has written no
\* field of the target.
C15_StageOrder ==
    /\ BodyNotRead => target = ZeroTarget(typ)
    /\ bindErr = "400" => target = ZeroTarget(typ)

\* field i carries a param, query, form or header tag
SourceClaimed(i) ==
    \/ Fields[i].param # "" \/ Fields[i].query # ""
    \/ Fields[i].form # ""  \/ Fields[i].header # ""

\* C16: at the end of a bind, every field that carries a param, query, form
\* or header tag has the value BindParams left in it, whatever keys the
\* body has.
C16_DecodeKeepsSourced ==
    (pc = "bound" /\ bindErr = "nil") =>
        \A i \in 1..NumField : SourceClaimed(i) => target[i] = afterParams[i]

\* C17: when a bind of a body that is not empty collects no error, every
\* key of the body is the JSON name of a field and that field holds the
\* key's value.
C17_NoSilentDrop ==
    (BodyDecoded /\ Collected = <<>>) =>
        \A k \in RawMapKeys :
            /\ k \in DOMAIN getJSONFields
            /\ HoldsValue(Fields[JSONFieldIndex(k)].Type,
                          target[JSONFieldIndex(k)], RawMapValue(k))

\* C18: a rule violation of a field is missing from the returned list only
\* when the bind reported a binding-stage error of that same field.
C18_OwnErrorSuppresses ==
    (pc = "done" /\ result.status # 400) =>
        \A v \in 1..Len(valErrs) :
            LET f == FieldIndex(valErrs[v].Field)
            IN  (\A a \in 1..Len(Collected) : Collected[a].fld # f)
                    => \E b \in 1..Len(Final) :
                           Final[b].stage = "rule" /\ Final[b].fld = f

\* C19: after any Bind on a context, first or later, that returned nil, the
\* binding errors BindAndValidate reads from the context are the errors
\* that Bind collected; when it collected none, none are read.
C19_ContextIsCurrent ==
    (pc = "bound" /\ bindErr = "nil") => ContextErrors(ctxErrs) = Collected

\* the sources field i declares
DeclaredSources(i) == {k \in 1..Len(Sources) : Fields[i][Sources[k]] \notin {"", "-"}}

\* the value the request carries for name in one source alone; for form,
\* the values of the form body
ValueIn(source, name) ==
    CASE source = "param"  -> Lookup(req.param, name)
      [] source = "query"  -> Lookup(req.query, name)
      [] source = "header" -> Lookup(req.header, CanonicalHeaderKey(name))
      [] source = "form"   ->
            IF req.body.ctype = "form" /\ req.body.readable
            THEN Lookup(req.body.form, name) ELSE ""

\* C20: once BindParams has run, a field that declares exactly one source
\* holds what the value found in that source alone coerces to: it is
\* unchanged and without error when that source has no value, whatever the
\* other sources hold under the same name.
C20_SourceIsolation ==
    pc # "bind" =>
        \A i \in 1..NumField :
            (CanSet(Fields[i]) /\ Cardinality(DeclaredSources(i)) = 1) =>
                LET k   == CHOOSE x \in DeclaredSources(i) : TRUE
                    own == ValueIn(Sources[k], TagName(Fields[i][Sources[k]]))
                    r   == bindValue(Fields[i].Type, Zero(Fields[i].Type), own)
                IN  IF own = ""
                    THEN /\ afterParams[i] = Zero(Fields[i].Type)
                         /\ \A a \in 1..Len(paramErrs) : paramErrs[a].fld # i
                    ELSE /\ afterParams[i] = r.val
                         /\ r.err # "" <=> \E a \in 1..Len(paramErrs) : paramErrs[a].fld = i

\* the value and the error that field i gets from its own sources alone
OwnBinding(i) ==
    LET k == PrioritySource(Fields[i])
    IN  IF k = 0 THEN [err |-> "", val |-> Zero(Fields[i].Type), k |-> 0]
        ELSE LET r == bindValue(Fields[i].Type, Zero(Fields[i].Type),
                                getParamValue(Fields[i], Sources[k]))
             IN  [err |-> r.err, val |-> r.val, k |-> k]

\* C21: once BindParams has run, a field whose first non-empty source fails
\* coercion has exactly one error, with the selector of that source set,
\* and keeps its value although a lower-priority source may hold a usable
\* one; every other field is bound as its own sources alone determine,
\* whether declared before or after a failing field.
C21_FailureIsLocal ==
    pc # "bind" =>
        \A i \in 1..NumField :
            CanSet(Fields[i]) =>
                LET own == OwnBinding(i)
                    mine == {a \in 1..Len(paramErrs) : paramErrs[a].fld = i}
                IN  IF own.err # ""
                    THEN /\ Cardinality(mine) = 1
                         /\ \A a \in mine :
                               /\ SelectorsSet(paramErrs[a].e) = {SelectorOf(Sources[own.k])}
                               /\ paramErrs[a].e.Error = own.err
                         /\ afterParams[i] = Zero(Fields[i].Type)
                    ELSE /\ mine = {}
                         /\ afterParams[i] = own.val

\* the path value of Cursor fails while its query value is usable, and the
\* field declared after it is bound
C21_Witness ==
    /\ pc = "params" /\ typ = 1
    /\ Param("cursor") = "x1" /\ QueryParam("cursor") = "2"
    /\ afterParams[1] = IntVal(0)
    /\ Len(paramErrs) = 1 /\ paramErrs[1].e.Param = <<"cursor">>
    /\ QueryParam("limit") = "300" /\ afterParams[2] # IntVal(0)

\* key is the JSON name of a field that has no param, query, form or header
\* tag
NamesJSONBound(key) ==
    \E i \in 1..NumField :
        /\ Fields[i].json # "" /\ Fields[i].json # "-"
        /\ TagName(Fields[i].json) = key
        /\ ~SourceClaimed(i)

\* the structural errors reported on a key with a given message
UnknownErrors(key) ==
    {a \in 1..Len(bodyErrs) :
        /\ bodyErrs[a].e.Field = <<key>>
        /\ bodyErrs[a].e.Error = "unknown field"}

\* C22: after the structural validation of a parsed body, every key of the
\* body has exactly one "unknown field" error, with only the Field selector
\* set to the key, when it is not the JSON name of a JSON-bound field, and
\* none when it is; a key that names a field with a source tag is unknown.
C22_UnknownKeys ==
    BodyDecoded =>
        /\ \A k \in RawMapKeys :
              /\ Cardinality(UnknownErrors(k)) = (IF NamesJSONBound(k) THEN 0 ELSE 1)
              /\ \A a \in UnknownErrors(k) : SelectorsSet(bodyErrs[a].e) = {"Field"}
        /\ \A a \in 1..Len(bodyErrs) :
              bodyErrs[a].e.Error = "unknown field" =>
                  \E k \in RawMapKeys : a \in UnknownErrors(k)

\* the key remember names a field that has a json name and a query tag and
\* is reported as unknown, beside a key that names no field
C22_Witness ==
    /\ BodyDecoded /\ typ = 3
    /\ RawMapKeys = {"remember", "Token"}
    /\ Cardinality(UnknownErrors("remember")) = 1
    /\ Cardinality(UnknownErrors("Token")) = 1

\* the coarse class a field of the Go type t expects, one pointer unwrapped
ExpectedClass(t) ==
    LET u == IF IsPtrType(t) THEN ElemType(t) ELSE t
    IN  CASE u = "string" -> "string"
          [] u \in IntTypes \cup UintTypes \cup FloatTypes -> "number"
          [] u = "bool" -> "boolean"
          [] u \in {"[]string", "[16]byte"} -> "array"
          [] OTHER -> "object"

\* the structural errors on a key other than "unknown field"
MismatchErrors(key) ==
    {a \in 1..Len(bodyErrs) :
        bodyErrs[a].e.Field = <<key>> /\ bodyErrs[a].e.Error # "unknown field"}

\* C23: after the structural validation of a parsed body, a key that names a
\* JSON-bound field has exactly one error "expected <class of the field>
\* but got <class of the value>" when the two classes differ and none when
\* they are equal; null differs from every class, every integer and float
\* type expects number, and the elements of arrays and objects play no part.
C23_CoarseTypeCheck ==
    BodyDecoded =>
        \A k \in RawMapKeys :
            NamesJSONBound(k) =>
                LET t == Fields[JSONFieldIndex(k)].Type
                    v == RawMapValue(k)
                IN  IF v.t # ExpectedClass(t)
                    THEN /\ Cardinality(MismatchErrors(k)) = 1
                         /\ \A a \in MismatchErrors(k) :
                               bodyErrs[a].e.Error =
                                   "expected " \o ExpectedClass(t) \o " but got " \o v.t
                    ELSE MismatchErrors(k) = {}

\* null for a string field is reported as a mismatch
C23_Witness ==
    /\ BodyDecoded
    /\ Fields = JSONValue("string")
    /\ BodyMembers = <<Member("v", JNull)>>
    /\ Len(bodyErrs) = 1
    /\ bodyErrs[1].e.Error = "expected string but got null"

\* C24: after a bind of a parsed body, a key that names a JSON-bound field
\* and whose value the decoder accepts for that field without error has no
\* type-mismatch error.
C24_NoFalsePositive ==
    BodyDecoded =>
        \A k \in RawMapKeys :
            (NamesJSONBound(k)
                /\ DecodeAccepts(Fields[JSONFieldIndex(k)].Type, RawMapValue(k)))
              => MismatchErrors(k) = {}

\* the text, its hyphens removed, is exactly 32 hexadecimal characters
IsHex32(raw) ==
    LET s == StripHyphens(raw)
    IN  Len(s) = 32 /\ \A i \in 1..32 : IsHex(CharAt(s, i))

\* the 16 bytes that 32 hexadecimal characters denote, pair by pair
BytesOf(raw) ==
    LET s == StripHyphens(raw)
    IN  [i \in 1..16 |-> 16 * HexVal(CharAt(s, 2 * i - 1)) + HexVal(CharAt(s, 2 * i))]

\* C25: a 16-byte field bound from a path value is set to the bytes the text
\* denotes, without error, when the text without hyphens is exactly 32
\* hexadecimal characters; for every other text it keeps its value and one
\* error "invalid UUID format" is recorded with the Param selector.
C25_UUIDCoercion ==
    (pc # "bind" /\ Fields = GetTodoParams /\ Param("id") # "") =>
        IF IsHex32(Param("id"))
        THEN /\ paramErrs = <<>>
             /\ afterParams[1] = BytesVal(BytesOf(Param("id")))
        ELSE /\ Len(paramErrs) = 1
             /\ paramErrs[1].e.Error = "invalid UUID format"
             /\ paramErrs[1].e.Param = <<"id">>
             /\ afterParams[1] = Zero("[16]byte")

\* a is an integer text within the range of a signed field of the width
InSignedRange(raw, bits) ==
    /\ ParseInt(raw).ok
    /\ IF bits = 8 THEN ParseInt(raw).v \in -128..127 ELSE TRUE

InUnsignedRange(raw, bits) ==
    /\ ParseUint(raw).ok
    /\ IF bits = 8 THEN ParseUint(raw).v \in 0..255 ELSE TRUE

\* C26: an integer field bound from a text holds the integer the text
\* denotes when the text is a base-10 integer within the range of the
\* field's width; for every other text it keeps its value and the error
\* "must be a valid integer" ("must be a valid unsigned integer" for an
\* unsigned field) is recorded.
C26_IntegerCoercion ==
    (pc # "bind" /\ Fields = PageQuery) =>
        \A i \in 1..NumField :
            LET raw  == QueryParam(Fields[i].query)
                t    == Fields[i].Type
                mine == {a \in 1..Len(paramErrs) : paramErrs[a].fld = i}
                inRange == IF Kind(t) = "Int" THEN InSignedRange(raw, Bits(t))
                           ELSE InUnsignedRange(raw, Bits(t))
                denoted == IF Kind(t) = "Int" THEN ParseInt(raw).v ELSE ParseUint(raw).v
            IN  raw # "" =>
                    IF inRange
                    THEN mine = {} /\ afterParams[i] = IntVal(denoted)
                    ELSE /\ afterParams[i] = IntVal(0)
                         /\ Cardinality(mine) = 1
                         /\ \A a \in mine :
                               paramErrs[a].e.Error =
                                   (IF Kind(t) = "Int" THEN "must be a valid integer"
                                    ELSE "must be a valid unsigned integer")

\* C27: when validateJSONStructure has returned, the target is as
\* BindParams left it, whatever the body and the errors found; the fields
\* that BindParams does not bind still have their zero values, and get the
\* values of the body only from the decode that follows.
C27_ValidationKeepsTarget ==
    pc = "structure" =>
        /\ target = afterParams
        /\ \A i \in 1..NumField : ~SourceClaimed(i) => target[i] = Zero(Fields[i].Type)

\* validation has found an error and a key of the body is still to be
\* decoded into its field
C27_Witness ==
    /\ pc = "structure"
    /\ Len(bodyErrs) > 0
    /\ target = afterParams
    /\ UnmarshalBody(target) # target

\* the body went through validateJSONStructure
BodyValidated == ~ReadAllFails /\ ~BodyIsEmpty /\ ~RawMapFails

\* C28: under every interleaving of the steps of two binds, each bind is in
\* a state that the bind of its own request alone produces: what
\* BindParams left, the structural errors, the decoded target, the list
\* under its context's key (its own collected list, never the other
\* request's) and the merged list all follow from its own request.
C28_Reentrancy ==
    /\ pc # "bind" =>
          /\ afterParams = BindParams(ZeroTarget(typ)).target
          /\ paramErrs = BindParams(ZeroTarget(typ)).errors
    /\ pc \in {"bind", "params", "structure", "fatal"} => ctxErrs = Unset
    /\ pc \in {"bind", "params", "structure"} => target = afterParams
    /\ (pc \in {"structure", "body", "bound", "validated", "done"} /\ BodyValidated) =>
          \E keys \in MapRangeOrders : bodyErrs = validateJSONStructure(keys)
    /\ (pc \in {"body", "bound", "validated", "done"} /\ bindErr = "nil") =>
          target = (IF BodyValidated THEN UnmarshalBody(afterParams) ELSE afterParams)
    /\ (pc \in {"bound", "validated", "done"} /\ bindErr = "nil") =>
          ContextErrors(ctxErrs) = Collected
    /\ (pc \in {"validated", "done"} /\ bindErr = "nil") =>
          allErrors = MergeErrors(Collected, valErrs)
    /\ pc = "done" =>
          result = (IF bindErr = "400" THEN [status |-> 400, errors |-> <<>>]
                    ELSE Response(allErrors))

\* the second request's bind has stored its errors while the first one,
\* which has errors of its own, is between BindParams and BindBody
C28_Witness ==
    /\ run = 2 /\ pc = "bound" /\ ctxErrs.set
    /\ prev.pc = "params" /\ Len(prev.paramErrs) > 0
    /\ prev.typ # typ

\* the target's fields use only param, query and json sources
OnlyParamQueryJSON ==
    \A i \in 1..NumField : Fields[i].form = "" /\ Fields[i].header = ""

\* the orders in which the body's keys can be ranged over, for a body that
\* is validated
KeyOrders == IF BodyValidated THEN MapRangeOrders ELSE {<<>>}

\* C29: for a target that uses only param, query and json sources, the
\* canonical Bind and the simpler Bind of the same request end with the
\* same target, the same fatal error or none, and the same list of binding
\* errors in the same order (for one same order of the body's keys).
C29_SimplerAgrees ==
    (pc = "bound" /\ OnlyParamQueryJSON) =>
        \E keys \in KeyOrders :
            LET simpler == SimplerBind(keys)
            IN  /\ simpler.target = target
                /\ (simpler.err = "400") <=> (bindErr = "400")
                /\ bindErr = "nil" =>
                      /\ Errs(simpler.errors) = Errs(Collected)
                      /\ (simpler.err = "422") <=> (Len(Collected) > 0)

\* Server.Shutdown has returned
ShutdownReturned == srv.pc \in {"returned", "exited", "fatal"}

\* the resources the server holds, in the order Shutdown is to release them
HeldResources ==
    SelectSeq(<<"DB", "Job", "Redis">>,
              LAMBDA r : r = "DB" \/ (r = "Job" /\ srv.Job # "nil")
                                  \/ (r = "Redis" /\ srv.Redis # "nil"))

\* C30: once Server.Shutdown has returned, with or without an error of the
\* HTTP server's shutdown, the database pool is closed, the job service
\* (when present) is stopped and the Redis client (when present) is
\* closed, and they were released in that order, after the HTTP server
\* stopped listening.
C30_ShutdownReleasesAll ==
    ShutdownReturned =>
        /\ ~srv.listening
        /\ srv.DB = "closed"
        /\ srv.Job \in {"nil", "stopped"}
        /\ srv.Redis \in {"nil", "closed"}
        /\ srv.closed = HeldResources

====
